---- MODULE Spec2Model ----
(***************************************************************************)
(* The model governance framework of src/governance/model_governance.py:   *)
(* the audit ledger (audit_trail.jsonl), the metadata registry (one JSON   *)
(* document per "<model_name>-<version>.json"), the compliance evaluator,  *)
(* the model card generator and the audit trail query.                     *)
(*                                                                         *)
(* Conventions.  A Python dict is a function whose DOMAIN is the set of    *)
(* keys present; d.get(k, default) is Get(d, k, default).  Ratios are      *)
(* counted in hundredths (0.85 is 85).  A timestamp is the reading of a    *)
(* non-decreasing UTC clock; datetime.isoformat() is order preserving, so  *)
(* the string comparison of two timestamps is the comparison of the two    *)
(* readings.  Python's None is the string None for an optional string and  *)
(* NoTime for an optional timestamp.  Fields of ModelMetadata that no      *)
(* operation reads or writes (commit_hash, branch, framework, ...) are     *)
(* represented by created_by and environment.                              *)
(***************************************************************************)
EXTENDS Integers, Sequences, FiniteSets, TLC

VARIABLES
    files,      \* governance/model-cards/*.json: path -> document
    cards,      \* governance/model-cards/*-card.md: path -> document
    ledger,     \* governance/audit_trail.jsonl: the sequence of its lines
    rulesFile,  \* governance/compliance_rules.json: << >> or <<document>>
    rules,      \* self.compliance_rules
    clock,      \* the reading datetime.utcnow() gives
    last,       \* the last call: its name, arguments, I/O outcome and result
    inflight    \* the processes inside log_audit_event: process -> its write

vars == <<files, cards, ledger, rulesFile, rules, clock, last, inflight>>

(***************************************************************************)
(* Bounds of the model.                                                    *)
(***************************************************************************)
MaxLedger == 2
MaxScenario == 3
MaxEvaluations == 1
MaxClock == 1

(***************************************************************************)
(* Representations of Python values.                                       *)
(***************************************************************************)
None == "None"
NoTime == -1
AccuracyKey == "accuracy"
BiasKey == "max_bias_ratio"

Get(d, k, default) == IF k \in DOMAIN d THEN d[k] ELSE default

EmptyDict == [k \in {} |-> 0]

(***************************************************************************)
(* The storage layer.  An I/O outcome is an input of the call: the step    *)
(* of the call that fails, if any.  A write that fails after open(path,    *)
(* "w") has truncated the file leaves a torn document, which json.load     *)
(* rejects.                                                                *)
(***************************************************************************)
Torn == [torn |-> TRUE]

IsJson(doc) == "torn" \notin DOMAIN doc

Readable(fs, path) == path \in DOMAIN fs /\ IsJson(fs[path])

WriteFile(fs, path, doc) ==
    [p \in DOMAIN fs \cup {path} |-> IF p = path THEN doc ELSE fs[p]]

MetadataPath(model_name, version) ==
    "governance/model-cards/" \o model_name \o "-" \o version \o ".json"

CardPath(model_name, version) ==
    "governance/model-cards/" \o model_name \o "-" \o version \o "-card.md"

(***************************************************************************)
(* ModelMetadata and AuditTrailEntry, as asdict() serialises them.         *)
(***************************************************************************)
ModelMetadata(model_name, version, created_by, accuracy, approval_status) ==
    [model_name |-> model_name,
     version |-> version,
     created_by |-> created_by,
     environment |-> "development",
     performance_metrics |-> [k \in {AccuracyKey} |-> accuracy],
     compliance_status |-> "PENDING",
     bias_assessment |-> EmptyDict,
     approval_status |-> approval_status,
     approved_by |-> None,
     approved_at |-> NoTime]

AuditTrailEntry(timestamp, event_type, model_name, model_version, user, action, details, environment) ==
    [timestamp |-> timestamp,
     event_type |-> event_type,
     model_name |-> model_name,
     model_version |-> model_version,
     user |-> user,
     action |-> action,
     details |-> details,
     environment |-> environment]

(***************************************************************************)
(* Compliance rules: the defaults _load_compliance_rules creates, and the  *)
(* load itself, which persists the defaults when the document is absent.   *)
(***************************************************************************)
DefaultMinimumAccuracy == 85
DefaultMaximumBiasRatio == 10
DefaultRetentionPolicyDays == 365
FallbackMinimumAccuracy == 80
FallbackMaximumBiasRatio == 10

DefaultRules ==
    [minimum_accuracy |-> DefaultMinimumAccuracy,
     maximum_bias_ratio |-> DefaultMaximumBiasRatio,
     required_tests |-> <<"unit_tests", "integration_tests", "bias_tests">>,
     retention_policy_days |-> DefaultRetentionPolicyDays]

\* The variant creates the defaults in memory and does not save them.
_load_compliance_rules_unsaved(file) ==
    IF file = << >>
    THEN [rules |-> DefaultRules, file |-> file]
    ELSE [rules |-> file[1], file |-> file]

_load_compliance_rules(file) ==
    IF file = << >>
    THEN [rules |-> DefaultRules, file |-> <<DefaultRules>>]
    ELSE [rules |-> file[1], file |-> file]

(***************************************************************************)
(* log_audit_event: one line appended to the ledger file (mode "a").       *)
(* The variant opens the file in mode "w".                                 *)
(***************************************************************************)
log_audit_event_truncating(led, event) == <<event>>

log_audit_event(led, event) == Append(led, event)

(***************************************************************************)
(* evaluate_compliance, the report: the accuracy check, the bias check,    *)
(* one check per required test, and the overall status from the flag       *)
(* all_passed, which each failing check clears.                            *)
(***************************************************************************)
\* The variant compares with > where the code compares with >=.
accuracy_check_strict(rls, performance_metrics) ==
    LET min_accuracy == Get(rls, "minimum_accuracy", FallbackMinimumAccuracy)
        actual == Get(performance_metrics, AccuracyKey, 0)
    IN  [check_name |-> "minimum_accuracy",
         required |-> min_accuracy,
         actual |-> actual,
         status |-> IF actual > min_accuracy THEN "PASS" ELSE "FAIL"]

accuracy_check(rls, performance_metrics) ==
    LET min_accuracy == Get(rls, "minimum_accuracy", FallbackMinimumAccuracy)
        actual == Get(performance_metrics, AccuracyKey, 0)
    IN  [check_name |-> "minimum_accuracy",
         required |-> min_accuracy,
         actual |-> actual,
         status |-> IF actual >= min_accuracy THEN "PASS" ELSE "FAIL"]

\* The variant compares with < where the code compares with <=.
bias_check_strict(rls, bias_metrics) ==
    LET max_bias == Get(rls, "maximum_bias_ratio", FallbackMaximumBiasRatio)
        bias_ratio == Get(bias_metrics, BiasKey, 0)
    IN  [check_name |-> "bias_assessment",
         required |-> max_bias,
         actual |-> bias_ratio,
         status |-> IF bias_ratio < max_bias THEN "PASS" ELSE "FAIL"]

bias_check(rls, bias_metrics) ==
    LET max_bias == Get(rls, "maximum_bias_ratio", FallbackMaximumBiasRatio)
        bias_ratio == Get(bias_metrics, BiasKey, 0)
    IN  [check_name |-> "bias_assessment",
         required |-> max_bias,
         actual |-> bias_ratio,
         status |-> IF bias_ratio <= max_bias THEN "PASS" ELSE "FAIL"]

\* The variant takes a test with no result for a passed one.
test_check_permissive(test_name, test_results) ==
    LET test_passed == Get(test_results, test_name, TRUE)
    IN  [check_name |-> "required_test_" \o test_name,
         required |-> TRUE,
         actual |-> test_passed,
         status |-> IF test_passed THEN "PASS" ELSE "FAIL"]

test_check(test_name, test_results) ==
    LET test_passed == Get(test_results, test_name, FALSE)
    IN  [check_name |-> "required_test_" \o test_name,
         required |-> TRUE,
         actual |-> test_passed,
         status |-> IF test_passed THEN "PASS" ELSE "FAIL"]

test_checks(rls, test_results) ==
    LET required_tests == Get(rls, "required_tests", << >>)
    IN  [i \in 1..Len(required_tests) |->
            test_check(required_tests[i], test_results)]

\* The variant does not clear the flag when the bias check fails.
all_passed_but_bias(rls, performance_metrics, bias_metrics, test_results) ==
    /\ accuracy_check(rls, performance_metrics).status # "FAIL"
    /\ \A i \in DOMAIN test_checks(rls, test_results) :
          test_checks(rls, test_results)[i].actual

all_passed(rls, performance_metrics, bias_metrics, test_results) ==
    /\ accuracy_check(rls, performance_metrics).status # "FAIL"
    /\ bias_check(rls, bias_metrics).status # "FAIL"
    /\ \A i \in DOMAIN test_checks(rls, test_results) :
          test_checks(rls, test_results)[i].actual

compliance_report(rls, model_name, model_version, performance_metrics, bias_metrics, test_results, now) ==
    [model_name |-> model_name,
     model_version |-> model_version,
     evaluation_timestamp |-> now,
     overall_status |->
        IF all_passed(rls, performance_metrics, bias_metrics, test_results)
        THEN "COMPLIANT" ELSE "NON_COMPLIANT",
     checks |-> <<accuracy_check(rls, performance_metrics),
                  bias_check(rls, bias_metrics)>>
                \o test_checks(rls, test_results)]

(***************************************************************************)
(* get_audit_trail, the result: the matching lines, then list.sort on the  *)
(* timestamp, which is stable.  A line is read with entry.get: a line      *)
(* without model_name or model_version matches no query for a name or a    *)
(* version, and a line without timestamp sorts under "", which is below    *)
(* every timestamp.                                                        *)
(***************************************************************************)
MissingTimestamp == -1

\* The variant sorts a line without timestamp behind every timestamp.
timestamp_key_last(entry) == Get(entry, "timestamp", MaxClock + 1)

timestamp_key(entry) == Get(entry, "timestamp", MissingTimestamp)

RECURSIVE matching_entries(_, _, _)
matching_entries(led, model_name, model_version) ==
    IF led = << >> THEN << >>
    ELSE LET entry == Head(led)
             rest == matching_entries(Tail(led), model_name, model_version)
         IN  IF /\ Get(entry, "model_name", None) = model_name
                /\ \/ model_version = None
                   \/ Get(entry, "model_version", None) = model_version
             THEN <<entry>> \o rest
             ELSE rest

\* The variant moves an entry in front of the entries of equal timestamp.
RECURSIVE insert_sorted_unstable(_, _)
insert_sorted_unstable(sorted, entry) ==
    IF sorted = << >> THEN <<entry>>
    ELSE IF timestamp_key(sorted[Len(sorted)]) < timestamp_key(entry)
         THEN Append(sorted, entry)
         ELSE Append(insert_sorted_unstable(SubSeq(sorted, 1, Len(sorted) - 1),
                                            entry),
                     sorted[Len(sorted)])

RECURSIVE insert_sorted(_, _)
insert_sorted(sorted, entry) ==
    IF sorted = << >> THEN <<entry>>
    ELSE IF timestamp_key(sorted[Len(sorted)]) <= timestamp_key(entry)
         THEN Append(sorted, entry)
         ELSE Append(insert_sorted(SubSeq(sorted, 1, Len(sorted) - 1), entry),
                     sorted[Len(sorted)])

RECURSIVE sort_by_timestamp(_)
sort_by_timestamp(entries) ==
    IF entries = << >> THEN << >>
    ELSE insert_sorted(sort_by_timestamp(SubSeq(entries, 1, Len(entries) - 1)),
                       entries[Len(entries)])

audit_trail(led, model_name, model_version) ==
    sort_by_timestamp(matching_entries(led, model_name, model_version))

(***************************************************************************)
(* The record approve_model writes back, and the document                  *)
(* generate_model_card renders from a metadata record.                     *)
(***************************************************************************)
\* The variant forgets the approver.
approved_metadata_anonymous(metadata, approver, now) ==
    [metadata EXCEPT !.approval_status = "APPROVED",
                     !.approved_at = now]

approved_metadata(metadata, approver, now) ==
    [metadata EXCEPT !.approval_status = "APPROVED",
                     !.approved_by = approver,
                     !.approved_at = now]

model_card(model_name, model_version, metadata, rls, now) ==
    [model_name |-> model_name,
     model_version |-> model_version,
     created_by |-> Get(metadata, "created_by", "Unknown"),
     performance_metrics |-> Get(metadata, "performance_metrics", EmptyDict),
     bias_assessment |->
        Get(Get(metadata, "bias_assessment", EmptyDict), "bias_assessment",
            "Not Assessed"),
     compliance_status |-> Get(metadata, "compliance_status", "Unknown"),
     approval_status |-> Get(metadata, "approval_status", "Pending"),
     environment |-> Get(metadata, "environment", "Unknown"),
     retention_policy_days |->
        Get(rls, "retention_policy_days", DefaultRetentionPolicyDays),
     last_updated |-> now]

(***************************************************************************)
(* assess_bias.  The test data are given by classes of rows: a class is    *)
(* the number of rows (count) that carry one label per column, the number  *)
(* of them the model predicts correctly (correct) and the number of them   *)
(* it predicts as 1 (positive).  A float is a fraction num/den and ulp,    *)
(* the number of floats it lies above or below that fraction: a mean is    *)
(* the float of its fraction (ulp 0), and a difference of two floats is    *)
(* the float of the difference of the fractions or a neighbour of it, as   *)
(* the rounding of the subtraction has it (the input rounding); x - x and  *)
(* x - 0.0 are exact.                                                      *)
(***************************************************************************)
Float(num, den) == [num |-> num, den |-> den, ulp |-> 0]

FloatLess(x, y) ==
    \/ x.num * y.den < y.num * x.den
    \/ x.num * y.den = y.num * x.den /\ x.ulp < y.ulp

FloatSub(x, y, ulp) ==
    [num |-> x.num * y.den - y.num * x.den,
     den |-> x.den * y.den,
     ulp |-> IF y.num = 0 \/ x.num * y.den = y.num * x.den THEN 0 ELSE ulp]

RECURSIVE Tally(_, _, _, _)
Tally(test_data, attr, value, field) ==
    IF test_data = << >> THEN 0
    ELSE (IF Head(test_data)[attr] = value THEN Head(test_data)[field] ELSE 0)
         + Tally(Tail(test_data), attr, value, field)

Columns(test_data) == DOMAIN test_data[1] \ {"count", "correct", "positive"}

unique_values(test_data, attr) ==
    {test_data[i][attr] : i \in {j \in DOMAIN test_data : test_data[j].count > 0}}

group_metrics(test_data, attr) ==
    [value \in unique_values(test_data, attr) |->
        [accuracy |-> Float(Tally(test_data, attr, value, "correct"),
                            Tally(test_data, attr, value, "count")),
         count |-> Tally(test_data, attr, value, "count"),
         positive_prediction_rate |->
            Float(Tally(test_data, attr, value, "positive"),
                  Tally(test_data, attr, value, "count"))]]

max_accuracies(metrics) ==
    CHOOSE x \in {metrics[v].accuracy : v \in DOMAIN metrics} :
       \A v \in DOMAIN metrics : ~FloatLess(x, metrics[v].accuracy)

min_accuracies(metrics) ==
    CHOOSE x \in {metrics[v].accuracy : v \in DOMAIN metrics} :
       \A v \in DOMAIN metrics : ~FloatLess(metrics[v].accuracy, x)

\* The variant subtracts the highest accuracy from the lowest.
bias_ratio_signed(metrics, ulp) ==
    IF Cardinality(DOMAIN metrics) > 1
    THEN FloatSub(min_accuracies(metrics), max_accuracies(metrics), ulp)
    ELSE Float(0, 1)

bias_ratio(metrics, ulp) ==
    IF Cardinality(DOMAIN metrics) > 1
    THEN FloatSub(max_accuracies(metrics), min_accuracies(metrics), ulp)
    ELSE Float(0, 1)

RECURSIVE Total(_, _)
Total(test_data, field) ==
    IF test_data = << >> THEN 0
    ELSE Head(test_data)[field] + Total(Tail(test_data), field)

overall_accuracy(test_data) ==
    Float(Total(test_data, "correct"), Total(test_data, "count"))

\* The attributes of the list that are columns of the test data, in the
\* order of the list.
assessed_attributes(test_data, protected_attributes) ==
    SelectSeq(protected_attributes, LAMBDA attr : attr \in Columns(test_data))

bias_metrics_of(test_data, protected_attributes, rounding) ==
    [attr \in {protected_attributes[i] : i \in DOMAIN protected_attributes}
               \cap Columns(test_data) |->
        [group_metrics |-> group_metrics(test_data, attr),
         bias_ratio |-> bias_ratio(group_metrics(test_data, attr),
                                   rounding[attr]),
         overall_accuracy |-> overall_accuracy(test_data)]]

\* The variant recommends from 0.05 on.
needs_recommendation_from(ratio) == ~FloatLess(ratio, Float(5, 100))

needs_recommendation(ratio) == FloatLess(Float(5, 100), ratio)

\* A recommendation is the string that names the attribute and its ratio.
recommendations(test_data, protected_attributes, rounding) ==
    LET metrics == bias_metrics_of(test_data, protected_attributes, rounding)
        high == SelectSeq(assessed_attributes(test_data, protected_attributes),
                          LAMBDA attr :
                             needs_recommendation(metrics[attr].bias_ratio))
    IN  [i \in DOMAIN high |->
            [attr |-> high[i], ratio |-> metrics[high[i]].bias_ratio]]

RECURSIVE max_bias_ratio(_, _)
max_bias_ratio(metrics, attrs) ==
    IF attrs = << >> THEN Float(0, 1)
    ELSE IF Len(attrs) = 1 THEN metrics[attrs[1]].bias_ratio
    ELSE LET rest == max_bias_ratio(metrics, Tail(attrs))
         IN  IF FloatLess(metrics[attrs[1]].bias_ratio, rest)
             THEN rest ELSE metrics[attrs[1]].bias_ratio

\* The variant has a ratio of exactly 0.05 LOW and one of exactly 0.1
\* MODERATE.
bias_assessment_inclusive(ratio) ==
    IF ~FloatLess(Float(5, 100), ratio) THEN "LOW"
    ELSE IF ~FloatLess(Float(10, 100), ratio) THEN "MODERATE"
    ELSE "HIGH"

bias_assessment(ratio) ==
    IF FloatLess(ratio, Float(5, 100)) THEN "LOW"
    ELSE IF FloatLess(ratio, Float(10, 100)) THEN "MODERATE"
    ELSE "HIGH"

bias_report(test_data, protected_attributes, rounding, now) ==
    LET metrics == bias_metrics_of(test_data, protected_attributes, rounding)
        maximum == max_bias_ratio(metrics,
                      assessed_attributes(test_data, protected_attributes))
    IN  [assessment_timestamp |-> now,
         protected_attributes |-> protected_attributes,
         bias_metrics |-> metrics,
         recommendations |->
            recommendations(test_data, protected_attributes, rounding),
         max_bias_ratio |-> maximum,
         bias_assessment |-> bias_assessment(maximum)]

(***************************************************************************)
(* The operations.  Each takes the call's arguments and its I/O outcome    *)
(* and records the call and its result in last.                            *)
(***************************************************************************)
Call(op, args, io, raised, ret) ==
    [op |-> op, args |-> args, io |-> io, raised |-> raised, ret |-> ret]

RegisterIO == {"ok", "append_error", "write_error", "write_torn"}
ApproveIO == {"ok", "write_error", "write_torn", "append_error"}
EvaluateIO == {"ok", "append_error"}
CardIO == {"ok", "write_error", "write_torn"}

\* The variant of register_model whose try block ends behind the logging:
\* a failing metadata write is not reported.
register_model_unchecked(metadata, io) ==
    LET audit_entry ==
            AuditTrailEntry(clock, "MODEL_REGISTRATION", metadata.model_name,
                            metadata.version, metadata.created_by,
                            "register_model", [metadata |-> metadata],
                            metadata.environment)
        metadata_path == MetadataPath(metadata.model_name, metadata.version)
    IN  /\ ledger' = IF io = "append_error" THEN ledger
                     ELSE log_audit_event(ledger, audit_entry)
        /\ files' = CASE io = "ok" -> WriteFile(files, metadata_path, metadata)
                      [] io = "write_torn" -> WriteFile(files, metadata_path, Torn)
                      [] OTHER -> files
        /\ last' = Call("register_model", [metadata |-> metadata], io, FALSE,
                        io # "append_error")
        /\ UNCHANGED <<inflight, cards, rulesFile, rules, clock>>

\* The variant of register_model that keeps the approval of a record that
\* is there already.
register_model_preserving(metadata, io) ==
    LET audit_entry ==
            AuditTrailEntry(clock, "MODEL_REGISTRATION", metadata.model_name,
                            metadata.version, metadata.created_by,
                            "register_model", [metadata |-> metadata],
                            metadata.environment)
        metadata_path == MetadataPath(metadata.model_name, metadata.version)
        kept == IF Readable(files, metadata_path)
                THEN [metadata EXCEPT
                         !.approval_status = files[metadata_path].approval_status,
                         !.approved_by = files[metadata_path].approved_by,
                         !.approved_at = files[metadata_path].approved_at]
                ELSE metadata
    IN  /\ ledger' = IF io = "append_error" THEN ledger
                     ELSE log_audit_event(ledger, audit_entry)
        /\ files' = CASE io = "ok" -> WriteFile(files, metadata_path, kept)
                      [] io = "write_torn" -> WriteFile(files, metadata_path, Torn)
                      [] OTHER -> files
        /\ last' = Call("register_model", [metadata |-> metadata], io, FALSE,
                        io = "ok")
        /\ UNCHANGED <<inflight, cards, rulesFile, rules, clock>>

\* The audit entry is logged first, the metadata document written second;
\* any exception of either step is caught and turned into False.
register_model(metadata, io) ==
    LET audit_entry ==
            AuditTrailEntry(clock, "MODEL_REGISTRATION", metadata.model_name,
                            metadata.version, metadata.created_by,
                            "register_model", [metadata |-> metadata],
                            metadata.environment)
        metadata_path == MetadataPath(metadata.model_name, metadata.version)
    IN  /\ ledger' = IF io = "append_error" THEN ledger
                     ELSE log_audit_event(ledger, audit_entry)
        /\ files' = CASE io = "ok" -> WriteFile(files, metadata_path, metadata)
                      [] io = "write_torn" -> WriteFile(files, metadata_path, Torn)
                      [] OTHER -> files
        /\ last' = Call("register_model", [metadata |-> metadata], io, FALSE,
                        io = "ok")
        /\ UNCHANGED <<inflight, cards, rulesFile, rules, clock>>

\* The variant of approve_model that takes a missing document for an empty
\* one, and so creates the record it was asked to approve.
approve_model_creating(model_name, model_version, approver, notes, io) ==
    LET metadata_path == MetadataPath(model_name, model_version)
        metadata == [approval_status |-> "APPROVED", approved_by |-> approver,
                     approved_at |-> clock]
        audit_entry ==
            AuditTrailEntry(clock, "MODEL_APPROVAL", model_name, model_version,
                            approver, "approve_model", [notes |-> notes],
                            "governance")
    IN  /\ files' = WriteFile(files, metadata_path,
                              IF Readable(files, metadata_path)
                              THEN approved_metadata(files[metadata_path],
                                                     approver, clock)
                              ELSE metadata)
        /\ ledger' = log_audit_event(ledger, audit_entry)
        /\ last' = Call("approve_model",
                        [model_name |-> model_name,
                         model_version |-> model_version,
                         approver |-> approver, notes |-> notes],
                        io, FALSE, TRUE)
        /\ UNCHANGED <<inflight, cards, rulesFile, rules, clock>>

\* The variant of approve_model that refuses a record whose
\* compliance_status is NON_COMPLIANT.
approve_model_gated(model_name, model_version, approver, notes, io) ==
    LET metadata_path == MetadataPath(model_name, model_version)
        loaded == /\ Readable(files, metadata_path)
                  /\ files[metadata_path].compliance_status # "NON_COMPLIANT"
        audit_entry ==
            AuditTrailEntry(clock, "MODEL_APPROVAL", model_name, model_version,
                            approver, "approve_model", [notes |-> notes],
                            "governance")
    IN  /\ files' = CASE loaded /\ io \in {"ok", "append_error"} ->
                           WriteFile(files, metadata_path,
                                     approved_metadata(files[metadata_path],
                                                       approver, clock))
                      [] loaded /\ io = "write_torn" ->
                           WriteFile(files, metadata_path, Torn)
                      [] OTHER -> files
        /\ ledger' = IF loaded /\ io = "ok"
                     THEN log_audit_event(ledger, audit_entry)
                     ELSE ledger
        /\ last' = Call("approve_model",
                        [model_name |-> model_name,
                         model_version |-> model_version,
                         approver |-> approver, notes |-> notes],
                        io, FALSE, loaded /\ io = "ok")
        /\ UNCHANGED <<inflight, cards, rulesFile, rules, clock>>

\* The variant of approve_model that puts the record back when the ledger
\* append fails.
approve_model_rollback(model_name, model_version, approver, notes, io) ==
    LET metadata_path == MetadataPath(model_name, model_version)
        loaded == Readable(files, metadata_path)
        audit_entry ==
            AuditTrailEntry(clock, "MODEL_APPROVAL", model_name, model_version,
                            approver, "approve_model", [notes |-> notes],
                            "governance")
    IN  /\ files' = CASE loaded /\ io = "ok" ->
                           WriteFile(files, metadata_path,
                                     approved_metadata(files[metadata_path],
                                                       approver, clock))
                      [] loaded /\ io = "write_torn" ->
                           WriteFile(files, metadata_path, Torn)
                      [] OTHER -> files
        /\ ledger' = IF loaded /\ io = "ok"
                     THEN log_audit_event(ledger, audit_entry)
                     ELSE ledger
        /\ last' = Call("approve_model",
                        [model_name |-> model_name,
                         model_version |-> model_version,
                         approver |-> approver, notes |-> notes],
                        io, FALSE, loaded /\ io = "ok")
        /\ UNCHANGED <<inflight, cards, rulesFile, rules, clock>>

\* The variant of approve_model that takes an APPROVED record for done:
\* it returns True and neither writes nor logs.
approve_model_idempotent(model_name, model_version, approver, notes, io) ==
    LET metadata_path == MetadataPath(model_name, model_version)
        loaded == Readable(files, metadata_path)
        done == loaded /\ files[metadata_path].approval_status = "APPROVED"
        audit_entry ==
            AuditTrailEntry(clock, "MODEL_APPROVAL", model_name, model_version,
                            approver, "approve_model", [notes |-> notes],
                            "governance")
    IN  /\ files' = CASE done -> files
                      [] loaded /\ io \in {"ok", "append_error"} ->
                           WriteFile(files, metadata_path,
                                     approved_metadata(files[metadata_path],
                                                       approver, clock))
                      [] loaded /\ io = "write_torn" ->
                           WriteFile(files, metadata_path, Torn)
                      [] OTHER -> files
        /\ ledger' = IF loaded /\ ~done /\ io = "ok"
                     THEN log_audit_event(ledger, audit_entry)
                     ELSE ledger
        /\ last' = Call("approve_model",
                        [model_name |-> model_name,
                         model_version |-> model_version,
                         approver |-> approver, notes |-> notes],
                        io, FALSE, done \/ (loaded /\ io = "ok"))
        /\ UNCHANGED <<inflight, cards, rulesFile, rules, clock>>

\* The metadata document is loaded, updated and written back first, the
\* audit entry logged second; any exception is caught and turned into False.
approve_model(model_name, model_version, approver, notes, io) ==
    LET metadata_path == MetadataPath(model_name, model_version)
        loaded == Readable(files, metadata_path)
        audit_entry ==
            AuditTrailEntry(clock, "MODEL_APPROVAL", model_name, model_version,
                            approver, "approve_model", [notes |-> notes],
                            "governance")
    IN  /\ files' = CASE loaded /\ io \in {"ok", "append_error"} ->
                           WriteFile(files, metadata_path,
                                     approved_metadata(files[metadata_path],
                                                       approver, clock))
                      [] loaded /\ io = "write_torn" ->
                           WriteFile(files, metadata_path, Torn)
                      [] OTHER -> files
        /\ ledger' = IF loaded /\ io = "ok"
                     THEN log_audit_event(ledger, audit_entry)
                     ELSE ledger
        /\ last' = Call("approve_model",
                        [model_name |-> model_name,
                         model_version |-> model_version,
                         approver |-> approver, notes |-> notes],
                        io, FALSE, loaded /\ io = "ok")
        /\ UNCHANGED <<inflight, cards, rulesFile, rules, clock>>

\* No exception is caught here: a failing append propagates to the caller.
evaluate_compliance(model_name, model_version, performance_metrics, bias_metrics, test_results, io) ==
    LET report == compliance_report(rules, model_name, model_version,
                                    performance_metrics, bias_metrics,
                                    test_results, clock)
        audit_entry ==
            AuditTrailEntry(clock, "COMPLIANCE_EVALUATION", model_name,
                            model_version, "system", "evaluate_compliance",
                            report, "governance")
    IN  /\ ledger' = IF io = "ok" THEN log_audit_event(ledger, audit_entry)
                     ELSE ledger
        /\ last' = Call("evaluate_compliance",
                        [model_name |-> model_name,
                         model_version |-> model_version,
                         performance_metrics |-> performance_metrics,
                         bias_metrics |-> bias_metrics,
                         test_results |-> test_results],
                        io, io # "ok", report)
        /\ UNCHANGED <<inflight, files, cards, rulesFile, rules, clock>>

\* The variant of generate_model_card that logs an audit entry for the card
\* it has written.
generate_model_card_logging(model_name, model_version, io) ==
    LET metadata_path == MetadataPath(model_name, model_version)
        card_path == CardPath(model_name, model_version)
        loaded == Readable(files, metadata_path)
        audit_entry ==
            AuditTrailEntry(clock, "MODEL_CARD_GENERATION", model_name,
                            model_version, "system", "generate_model_card",
                            [card_path |-> card_path], "governance")
    IN  /\ cards' = CASE loaded /\ io = "ok" ->
                           WriteFile(cards, card_path,
                                     model_card(model_name, model_version,
                                                files[metadata_path], rules,
                                                clock))
                      [] loaded /\ io = "write_torn" ->
                           WriteFile(cards, card_path, Torn)
                      [] OTHER -> cards
        /\ ledger' = IF loaded /\ io = "ok"
                     THEN log_audit_event(ledger, audit_entry)
                     ELSE ledger
        /\ last' = Call("generate_model_card",
                        [model_name |-> model_name,
                         model_version |-> model_version],
                        io, ~(loaded /\ io = "ok"), card_path)
        /\ UNCHANGED <<inflight, files, rulesFile, rules, clock>>

\* Every exception is logged and raised again.  The card is written in
\* place: open(card_path, "w") truncates the file, and a write that fails
\* behind it leaves a torn card.
generate_model_card(model_name, model_version, io) ==
    LET metadata_path == MetadataPath(model_name, model_version)
        card_path == CardPath(model_name, model_version)
        loaded == Readable(files, metadata_path)
    IN  /\ cards' = CASE loaded /\ io = "ok" ->
                           WriteFile(cards, card_path,
                                     model_card(model_name, model_version,
                                                files[metadata_path], rules,
                                                clock))
                      [] loaded /\ io = "write_torn" ->
                           WriteFile(cards, card_path, Torn)
                      [] OTHER -> cards
        /\ last' = Call("generate_model_card",
                        [model_name |-> model_name,
                         model_version |-> model_version],
                        io, ~(loaded /\ io = "ok"), card_path)
        /\ UNCHANGED <<inflight, files, ledger, rulesFile, rules, clock>>

\* assess_bias reads its arguments and writes nothing.
assess_bias(test_data, protected_attributes, rounding) ==
    /\ last' = Call("assess_bias",
                    [test_data |-> test_data,
                     protected_attributes |-> protected_attributes],
                    "ok", FALSE,
                    bias_report(test_data, protected_attributes, rounding,
                                clock))
    /\ UNCHANGED <<inflight, files, cards, ledger, rulesFile, rules, clock>>

\* A missing ledger file and an empty one both give the empty list.  Only
\* FileNotFoundError is caught: the error json.loads raises on a line that
\* is not JSON leaves the loop and the call.
get_audit_trail(model_name, model_version) ==
    LET raised == \E i \in DOMAIN ledger : ~IsJson(ledger[i])
    IN  /\ last' = Call("get_audit_trail",
                        [model_name |-> model_name,
                         model_version |-> model_version],
                        "ok", raised,
                        IF raised THEN None
                        ELSE audit_trail(ledger, model_name, model_version))
        /\ UNCHANGED <<inflight, files, cards, ledger, rulesFile, rules, clock>>

\* ModelGovernance(): the directories are created and the rules loaded.
\* Only FileNotFoundError is caught: a rules document that is not JSON
\* makes the constructor raise, and no object is constructed.
__init__ ==
    LET unparsable == rulesFile # << >> /\ ~IsJson(rulesFile[1])
    IN  /\ rules' = IF unparsable THEN rules
                    ELSE _load_compliance_rules(rulesFile).rules
        /\ rulesFile' = IF unparsable THEN rulesFile
                        ELSE _load_compliance_rules(rulesFile).file
        /\ last' = Call("__init__", EmptyDict, "ok", unparsable, None)
        /\ UNCHANGED <<inflight, files, cards, ledger, clock>>

(***************************************************************************)
(* log_audit_event step by step, as several processes run it on the one    *)
(* ledger file.  No lock is taken.  open(path, "a") opens the file for     *)
(* appending; f.write leaves the line in the buffer of the file object;    *)
(* leaving the with block flushes the buffer with write(2) and closes the  *)
(* file.  Each write(2) lands at the end of the file as it then is, and    *)
(* may transfer the whole of what is pending or a first part of it only,   *)
(* in which case the flush calls write(2) again for the rest.  A part that *)
(* lands behind an unterminated part joins its line.                       *)
(***************************************************************************)
Procs == {"p1", "p2"}

Unterminated(led) ==
    /\ led # << >>
    /\ ~IsJson(led[Len(led)])
    /\ ~Get(led[Len(led)], "terminated", TRUE)

os_write(led, event, part) ==
    LET piece == [of |-> event, part |-> part]
        newline == part # "head"
    IN  IF Unterminated(led)
        THEN IF /\ part = "tail"
                /\ led[Len(led)].pieces = <<[of |-> event, part |-> "head"]>>
             THEN [led EXCEPT ![Len(led)] = event]
             ELSE [led EXCEPT ![Len(led)] =
                      [torn |-> TRUE,
                       pieces |-> Append(led[Len(led)].pieces, piece),
                       terminated |-> newline]]
        ELSE IF part = "whole"
             THEN Append(led, event)
             ELSE Append(led, [torn |-> TRUE, pieces |-> <<piece>>,
                               terminated |-> newline])

log_audit_event_open(p, event) ==
    /\ p \notin DOMAIN inflight
    /\ inflight' = [q \in DOMAIN inflight \cup {p} |->
                       IF q = p THEN [event |-> event, pending |-> "whole"]
                       ELSE inflight[q]]
    /\ UNCHANGED <<files, cards, ledger, rulesFile, rules, clock, last>>

log_audit_event_short_write(p) ==
    /\ p \in DOMAIN inflight
    /\ inflight[p].pending = "whole"
    /\ ledger' = os_write(ledger, inflight[p].event, "head")
    /\ inflight' = [inflight EXCEPT ![p].pending = "tail"]
    /\ UNCHANGED <<files, cards, rulesFile, rules, clock, last>>

log_audit_event_close(p) ==
    /\ p \in DOMAIN inflight
    /\ ledger' = os_write(ledger, inflight[p].event, inflight[p].pending)
    /\ inflight' = [q \in DOMAIN inflight \ {p} |-> inflight[q]]
    /\ UNCHANGED <<files, cards, rulesFile, rules, clock, last>>

\* A run of the approval script, src/governance/approve_model.py: main
\* constructs a ModelGovernance, which finds the rules document in place,
\* and calls governance.get_model_metadata.  ModelGovernance defines no
\* attribute of that name: the call raises AttributeError, which nothing
\* catches, before any check is made and before anything is written.
ModelGovernanceMethods ==
    {"__init__", "_ensure_directories", "_load_compliance_rules",
     "_save_compliance_rules", "log_audit_event", "register_model",
     "_register_mlflow_model", "evaluate_compliance", "assess_bias",
     "generate_model_card", "get_audit_trail", "approve_model"}

approval_script(model_name, version) ==
    /\ "get_model_metadata" \notin ModelGovernanceMethods
    /\ last' = Call("approve_model.py",
                    [model_name |-> model_name, version |-> version],
                    "ok", TRUE, "AttributeError")
    /\ UNCHANGED <<inflight, files, cards, ledger, rulesFile, rules, clock>>

\* Time passes between two calls.
Tick ==
    /\ clock < MaxClock
    /\ clock' = clock + 1
    /\ UNCHANGED <<inflight, files, cards, ledger, rulesFile, rules, last>>

(***************************************************************************)
(* The calls a client may make, over the given keys and I/O outcomes.      *)
(* The calls that append are bounded by the length of the ledger.          *)
(***************************************************************************)
AllTestsPassed ==
    [t \in {"unit_tests", "integration_tests", "bias_tests"} |-> TRUE]

ApprovalInputs == {<<"alice", "ok">>, <<"bob", "">>}

Register(keys, ios) ==
    \E k \in keys, acc \in {70, 90}, io \in ios :
       register_model(ModelMetadata(k[1], k[2], "dev", acc, "PENDING"), io)

Approve(keys, ios) ==
    \E k \in keys, a \in ApprovalInputs, io \in ios :
       approve_model(k[1], k[2], a[1], a[2], io)

Evaluate(keys, ios) ==
    \E k \in keys, acc \in {70, 90}, io \in ios :
       evaluate_compliance(k[1], k[2], [m \in {AccuracyKey} |-> acc],
                           EmptyDict, AllTestsPassed, io)

GenerateCard(keys, ios) ==
    \E k \in keys, io \in ios : generate_model_card(k[1], k[2], io)

Query(keys) ==
    \E k \in keys :
       \E model_version \in {k[2], None} :
          get_audit_trail(k[1], model_version)

InitFrom(rules_files) ==
    /\ files = EmptyDict
    /\ cards = EmptyDict
    /\ ledger = << >>
    /\ \E f \in rules_files :
          /\ rules = _load_compliance_rules(f).rules
          /\ rulesFile = _load_compliance_rules(f).file
    /\ clock = 0
    /\ last = Call("__init__", EmptyDict, "ok", FALSE, None)
    /\ inflight = EmptyDict

(***************************************************************************)
(* Spec: a fresh governance directory whose storage works, and any         *)
(* sequence of calls over three keys, two of which share a document path.  *)
(***************************************************************************)
Keys == {<<"a", "c">>, <<"a-b", "c">>, <<"a", "b-c">>}
CardKeys == {<<"a", "c">>}

Init == InitFrom({<< >>})

Next ==
    \/ Len(ledger) < MaxLedger /\ Register(Keys, {"ok"})
    \/ Len(ledger) < MaxLedger /\ Approve(Keys, {"ok"})
    \/ Len(ledger) < MaxLedger /\ Evaluate(Keys, {"ok"})
    \/ GenerateCard(CardKeys, {"ok"})
    \/ Query(Keys)
    \/ Tick

Spec == Init /\ [][Next]_vars

(***************************************************************************)
(* SpecIO: the calls on one key, with a storage layer that may fail at     *)
(* any step of any call.                                                   *)
(***************************************************************************)
KeysIO == {<<"a", "c">>}

NextIO ==
    \/ Len(ledger) < MaxLedger /\ Register(KeysIO, RegisterIO)
    \/ Len(ledger) < MaxLedger /\ Approve(KeysIO, ApproveIO)
    \/ Len(ledger) < MaxLedger /\ Evaluate(KeysIO, EvaluateIO)
    \/ GenerateCard(KeysIO, CardIO)
    \/ Query(KeysIO)
    \/ Tick

SpecIO == Init /\ [][NextIO]_vars

(***************************************************************************)
(* SpecScenario: the life cycle of two versions of one model, three        *)
(* ledger entries deep, with a storage layer that works.                   *)
(***************************************************************************)
KeysScenario == {<<"a", "c">>, <<"a", "b-c">>}

NextScenario ==
    \/ Len(ledger) < MaxScenario /\ Register(KeysScenario, {"ok"})
    \/ Len(ledger) < MaxScenario /\ Approve(KeysScenario, {"ok"})
    \/ Len(ledger) < MaxScenario /\ Evaluate(KeysScenario, {"ok"})
    \/ Query(KeysScenario)
    \/ Tick

SpecScenario == Init /\ [][NextScenario]_vars

(***************************************************************************)
(* SpecLifecycle: the registrations and approvals of one key, as deep as   *)
(* SpecScenario, with a storage layer that works.                          *)
(***************************************************************************)
KeysLifecycle == {<<"a", "c">>}

NextLifecycle ==
    \/ Len(ledger) < MaxScenario /\ Register(KeysLifecycle, {"ok"})
    \/ Len(ledger) < MaxScenario /\ Approve(KeysLifecycle, {"ok"})
    \/ Tick

SpecLifecycle == Init /\ [][NextLifecycle]_vars

(***************************************************************************)
(* SpecEval: evaluate_compliance on every combination of its inputs,       *)
(* under the default rules and under two rules documents found at          *)
(* construction, one without minimum_accuracy, one without                 *)
(* maximum_bias_ratio and required_tests.                                  *)
(***************************************************************************)
RulesDocuments ==
    {<< >>,
     <<[maximum_bias_ratio |-> 0,
        required_tests |-> <<"bias_tests", "unit_tests">>]>>,
     <<[minimum_accuracy |-> DefaultMinimumAccuracy]>>}

PerformanceInputs ==
    {EmptyDict} \cup {[m \in {AccuracyKey} |-> acc] : acc \in {79, 80, 84, 85}}

BiasInputs ==
    {EmptyDict} \cup {[m \in {BiasKey} |-> ratio] : ratio \in {0, 10, 11}}

TestResultsInputs ==
    {AllTestsPassed,
     [AllTestsPassed EXCEPT !["unit_tests"] = FALSE],
     [AllTestsPassed EXCEPT !["bias_tests"] = FALSE],
     [t \in {"unit_tests", "integration_tests"} |-> TRUE],
     [t \in {"unit_tests", "bias_tests"} |-> TRUE],
     EmptyDict}

InitEval == InitFrom(RulesDocuments)

NextEval ==
    /\ Len(ledger) < MaxEvaluations
    /\ \E pm \in PerformanceInputs, bm \in BiasInputs,
          tr \in TestResultsInputs, io \in EvaluateIO :
          evaluate_compliance("a", "c", pm, bm, tr, io)

SpecEval == InitEval /\ [][NextEval]_vars

(***************************************************************************)
(* SpecRegistry: the registry on one key, with a storage layer that works, *)
(* registrations of every approval status and of records that are not      *)
(* compliant, approvals, and runs of the approval script.                  *)
(***************************************************************************)
KeysRegistry == {<<"a", "c">>}

MetadataInputs(keys) ==
    {[ModelMetadata(k[1], k[2], "dev", 70, approval_status)
         EXCEPT !.compliance_status = assessment[1],
                !.bias_assessment = assessment[2]] :
        k \in keys,
        approval_status \in {"PENDING", "APPROVED", "REJECTED"},
        assessment \in {<<"PENDING", EmptyDict>>,
                        <<"NON_COMPLIANT", [bias_assessment |-> "HIGH"]>>}}

RegisterAny(keys, ios) ==
    \E metadata \in MetadataInputs(keys), io \in ios :
       register_model(metadata, io)

ApprovalScript(keys) == \E k \in keys : approval_script(k[1], k[2])

NextRegistry ==
    \/ Len(ledger) < MaxLedger /\ RegisterAny(KeysRegistry, {"ok"})
    \/ Len(ledger) < MaxLedger /\ Approve(KeysRegistry, {"ok"})
    \/ ApprovalScript(KeysRegistry)

SpecRegistry == Init /\ [][NextRegistry]_vars

(***************************************************************************)
(* SpecCard: registrations of two keys with a storage layer that works,    *)
(* and generate_model_card on both keys with a card write that may fail.   *)
(***************************************************************************)
KeysCard == {<<"a", "c">>, <<"a-b", "c">>}

NextCard ==
    \/ Len(ledger) < MaxLedger /\ Register(KeysCard, {"ok"})
    \/ GenerateCard(KeysCard, CardIO)

SpecCard == Init /\ [][NextCard]_vars

(***************************************************************************)
(* SpecConcurrent: two processes that log the registration of one key at   *)
(* the same time, and a process that queries the ledger meanwhile.         *)
(***************************************************************************)
ConcurrentEvents(p) ==
    {AuditTrailEntry(clock, "MODEL_REGISTRATION", k[1], k[2], p,
                     "register_model",
                     [metadata |-> ModelMetadata(k[1], k[2], p, 90, "PENDING")],
                     "development") : k \in KeysIO}

NextConcurrent ==
    \/ /\ Len(ledger) + Cardinality(DOMAIN inflight) < MaxLedger
       /\ \E p \in Procs :
             \E event \in ConcurrentEvents(p) : log_audit_event_open(p, event)
    \/ \E p \in Procs : log_audit_event_short_write(p)
    \/ \E p \in Procs : log_audit_event_close(p)
    \/ Query(KeysIO)
    \/ Tick

SpecConcurrent == Init /\ [][NextConcurrent]_vars

(***************************************************************************)
(* SpecRules: the construction of ModelGovernance in a governance          *)
(* directory whose rules document is absent, present or not JSON, and      *)
(* evaluate_compliance on the object constructed.  Before the first        *)
(* construction there is no object and no call has been made.              *)
(***************************************************************************)
Constructed ==
    /\ last.op # None
    /\ rulesFile # << >>
    /\ IsJson(rulesFile[1])

InitRules ==
    /\ files = EmptyDict
    /\ cards = EmptyDict
    /\ ledger = << >>
    /\ rulesFile \in RulesDocuments \cup {<<Torn>>}
    /\ rules = EmptyDict
    /\ clock = 0
    /\ last = Call(None, EmptyDict, "ok", FALSE, None)
    /\ inflight = EmptyDict

NextRules ==
    \/ __init__
    \/ /\ Constructed
       /\ Len(ledger) < MaxEvaluations
       /\ \E pm \in PerformanceInputs, bm \in BiasInputs,
             tr \in {AllTestsPassed, EmptyDict} :
             evaluate_compliance("a", "c", pm, bm, tr, "ok")

SpecRules == InitRules /\ [][NextRules]_vars

(***************************************************************************)
(* SpecBias: assess_bias on test data of up to four classes of rows, one   *)
(* per pair of labels of the two columns ph_range and hardness_range, each *)
(* class empty or of CellSize rows, and on lists of protected attributes   *)
(* that name none, one or both of the columns, or no column at all.        *)
(* assess_bias reads nothing but its arguments and writes nothing, so one  *)
(* call on a fresh object shows all it does.                               *)
(***************************************************************************)
CellSize == 50

Cell(ph, hardness, count, correct) ==
    [ph_range |-> ph, hardness_range |-> hardness, count |-> count,
     correct |-> correct, positive |-> count \div 5]

Cells(ph, hardness) ==
    {Cell(ph, hardness, 0, 0)}
       \cup {Cell(ph, hardness, CellSize, correct) : correct \in {0, 5, 45, 46, 50}}

TestDataInputs ==
    {<<c1, c2, c3, c4>> :
        c1 \in {c \in Cells("lo", "lo") : c.count > 0},
        c2 \in Cells("lo", "hi"),
        c3 \in Cells("hi", "lo"),
        c4 \in Cells("hi", "hi")}

ProtectedAttributesInputs ==
    {<< >>, <<"ph_range">>, <<"ph_range", "hardness_range">>,
     <<"hardness_range", "region", "ph_range">>}

RoundingInputs == [{"ph_range", "hardness_range"} -> {-1, 0, 1}]

NextBias ==
    /\ last.op = "__init__"
    /\ \E test_data \in TestDataInputs,
          protected_attributes \in ProtectedAttributesInputs,
          rounding \in RoundingInputs :
          assess_bias(test_data, protected_attributes, rounding)

InitBias == InitFrom(RulesDocuments)

SpecBias == InitBias /\ [][NextBias]_vars

(***************************************************************************)
(* SpecLedger: get_audit_trail on a ledger file of any content: up to      *)
(* MaxLines lines, each an entry of one of three keys, with a timestamp or *)
(* without one, or a line that is not JSON.                                *)
(***************************************************************************)
MaxLines == 3

KeysLedger == {<<"a", "c">>, <<"a", "d">>, <<"b", "c">>}

LedgerEntries ==
    {[model_name |-> k[1], model_version |-> k[2], timestamp |-> t] :
        k \in KeysLedger, t \in 0..MaxClock}
    \cup {[model_name |-> k[1], model_version |-> k[2]] : k \in KeysLedger}

LedgerContents ==
    UNION {[1..n -> LedgerEntries \cup {Torn}] : n \in 0..MaxLines}

InitLedger ==
    /\ files = EmptyDict
    /\ cards = EmptyDict
    /\ ledger \in LedgerContents
    /\ rules = _load_compliance_rules(<< >>).rules
    /\ rulesFile = _load_compliance_rules(<< >>).file
    /\ clock = 0
    /\ last = Call("__init__", EmptyDict, "ok", FALSE, None)
    /\ inflight = EmptyDict

NextLedger == Query(KeysLedger)

SpecLedger == InitLedger /\ [][NextLedger]_vars

(***************************************************************************)
(* Properties.                                                             *)
(***************************************************************************)
IsPrefix(s, t) == Len(s) <= Len(t) /\ SubSeq(t, 1, Len(s)) = s

RECURSIVE CountEntries(_, _, _, _)
CountEntries(led, event_type, model_name, model_version) ==
    IF led = << >> THEN 0
    ELSE (IF /\ Head(led).event_type = event_type
             /\ Head(led).model_name = model_name
             /\ Head(led).model_version = model_version
          THEN 1 ELSE 0)
         + CountEntries(Tail(led), event_type, model_name, model_version)

EventTypes(entries) == [i \in DOMAIN entries |-> entries[i].event_type]

\* C1: whatever call is made (register_model, approve_model,
\* evaluate_compliance, generate_model_card, get_audit_trail), and whether
\* its I/O succeeds or fails, every entry the ledger held before the call is
\* still there afterwards, unchanged and at the same position: the ledger
\* before is a prefix of the ledger after.
C1_AppendOnly == [][IsPrefix(ledger, ledger')]_vars

\* A second entry has been appended behind a first one.
C1_Witness ==
    /\ Len(ledger) = 2
    /\ last.op \in {"register_model", "approve_model", "evaluate_compliance"}
    /\ ~last.raised

\* C2: every register_model call that returns True has replaced the stored
\* document by the metadata passed and has added exactly one
\* MODEL_REGISTRATION entry for the key, and a call that returns False has
\* added none, so that the ledger holds as many MODEL_REGISTRATION entries
\* for a key as there were successful registrations of it.
C2_ReRegistration ==
    [][\A k \in KeysIO, acc \in {70, 90}, io \in RegisterIO :
         LET metadata == ModelMetadata(k[1], k[2], "dev", acc, "PENDING")
             before == CountEntries(ledger, "MODEL_REGISTRATION", k[1], k[2])
             after == CountEntries(ledger', "MODEL_REGISTRATION", k[1], k[2])
         IN  register_model(metadata, io) =>
                IF last'.ret
                THEN /\ files'[MetadataPath(k[1], k[2])] = metadata
                     /\ after = before + 1
                ELSE after = before]_vars

\* C3: approve_model on an existing record whose approval_status is PENDING
\* returns True, leaves the record APPROVED with approved_by the approver
\* and approved_at set, and appends exactly one entry, a MODEL_APPROVAL
\* entry for the key whose user is the approver and whose details carry
\* the notes.
C3_ApprovePending ==
    [][\A k \in Keys, a \in ApprovalInputs :
         LET path == MetadataPath(k[1], k[2])
         IN  (/\ Readable(files, path)
              /\ files[path].approval_status = "PENDING"
              /\ approve_model(k[1], k[2], a[1], a[2], "ok")) =>
                /\ last'.ret = TRUE
                /\ files'[path].approval_status = "APPROVED"
                /\ files'[path].approved_by = a[1]
                /\ files'[path].approved_at # NoTime
                /\ Len(ledger') = Len(ledger) + 1
                /\ IsPrefix(ledger, ledger')
                /\ LET entry == ledger'[Len(ledger')]
                   IN  /\ entry.event_type = "MODEL_APPROVAL"
                       /\ entry.model_name = k[1]
                       /\ entry.model_version = k[2]
                       /\ entry.user = a[1]
                       /\ entry.details = [notes |-> a[2]]]_vars

\* A registered, never approved record has just been approved.
C3_Witness ==
    /\ last.op = "approve_model"
    /\ last.ret = TRUE
    /\ Len(ledger) = 2
    /\ ledger[1].event_type = "MODEL_REGISTRATION"
    /\ ledger[2].event_type = "MODEL_APPROVAL"
    /\ files[MetadataPath(last.args.model_name, last.args.model_version)]
          .approved_by = last.args.approver

\* C4: approve_model for a key with no metadata document returns False,
\* appends nothing to the ledger and creates no document.
C4_ApproveMissing ==
    [][\A k \in Keys, a \in ApprovalInputs :
         (/\ MetadataPath(k[1], k[2]) \notin DOMAIN files
          /\ approve_model(k[1], k[2], a[1], a[2], "ok")) =>
            /\ last'.ret = FALSE
            /\ ledger' = ledger
            /\ files' = files]_vars

\* approve_model has just failed on a key that has no document, while
\* another key has one.
C4_Witness ==
    /\ last.op = "approve_model"
    /\ last.ret = FALSE
    /\ MetadataPath(last.args.model_name, last.args.model_version)
          \notin DOMAIN files
    /\ DOMAIN files # {}

(***************************************************************************)
(* The end-to-end scenario on key k: from an empty ledger, register_model, *)
(* then evaluate_compliance with result COMPLIANT, then approve_model, all *)
(* three on k and all three successful, then get_audit_trail on k.  Each   *)
(* of the three calls appends one entry, and no other call appends.        *)
(***************************************************************************)
ScenarioDone(k) ==
    /\ Len(ledger) = 3
    /\ \A i \in 1..3 : ledger[i].model_name = k[1] /\ ledger[i].model_version = k[2]
    /\ ledger[1].action = "register_model"
    /\ ledger[2].action = "evaluate_compliance"
    /\ ledger[2].details.overall_status = "COMPLIANT"
    /\ ledger[3].action = "approve_model"
    /\ Readable(files, MetadataPath(k[1], k[2]))
    /\ files[MetadataPath(k[1], k[2])].approval_status = "APPROVED"
    /\ last.op = "get_audit_trail"
    /\ last.args = [model_name |-> k[1], model_version |-> k[2]]

\* C5, as claimed: after the scenario, get_audit_trail(model_name, version)
\* returns exactly 2 entries, in the order MODEL_REGISTRATION,
\* MODEL_APPROVAL.
C5_TwoEntries ==
    \A k \in KeysScenario :
       ScenarioDone(k) =>
          EventTypes(last.ret) = <<"MODEL_REGISTRATION", "MODEL_APPROVAL">>

\* C5, amended: after the scenario, get_audit_trail(model_name, version)
\* returns exactly 3 entries, in the order MODEL_REGISTRATION,
\* COMPLIANCE_EVALUATION, MODEL_APPROVAL: evaluate_compliance logs an entry
\* of its own under the key.
C5_ThreeEntries ==
    \A k \in KeysScenario :
       ScenarioDone(k) =>
          /\ Len(last.ret) = 3
          /\ EventTypes(last.ret) =
                <<"MODEL_REGISTRATION", "COMPLIANCE_EVALUATION", "MODEL_APPROVAL">>

\* The scenario has run, with the approval at a later time than the
\* registration.
C5_Witness ==
    \E k \in KeysScenario :
       /\ ScenarioDone(k)
       /\ ledger[1].timestamp < ledger[3].timestamp

\* C6: a register_model or approve_model call appends at most one entry,
\* and appends it only once its metadata write has succeeded: whenever the
\* call has appended an entry, the document of the key holds what the call
\* was to write.
C6_AppendAfterWrite ==
    [][\A k \in KeysIO :
         LET path == MetadataPath(k[1], k[2])
         IN  /\ \A acc \in {70, 90}, io \in RegisterIO :
                  LET metadata == ModelMetadata(k[1], k[2], "dev", acc, "PENDING")
                  IN  (register_model(metadata, io) /\ ledger' # ledger) =>
                         /\ Len(ledger') = Len(ledger) + 1
                         /\ Readable(files', path)
                         /\ files'[path] = metadata
             /\ \A a \in ApprovalInputs, io \in ApproveIO :
                  (approve_model(k[1], k[2], a[1], a[2], io) /\ ledger' # ledger) =>
                     /\ Len(ledger') = Len(ledger) + 1
                     /\ Readable(files', path)
                     /\ files'[path].approval_status = "APPROVED"
                     /\ files'[path].approved_by = a[1]]_vars

(***************************************************************************)
(* The report of the last evaluate_compliance call that returned.          *)
(***************************************************************************)
Evaluated == last.op = "evaluate_compliance" /\ ~last.raised

\* C7: the report evaluate_compliance returns has overall_status COMPLIANT
\* exactly when every check of its checks list has status PASS, and
\* NON_COMPLIANT otherwise; it is never PENDING.
C7_OverallStatus ==
    Evaluated =>
       LET report == last.ret
           every_check_passes ==
              \A i \in DOMAIN report.checks : report.checks[i].status = "PASS"
       IN  /\ report.overall_status \in {"COMPLIANT", "NON_COMPLIANT"}
           /\ report.overall_status = "COMPLIANT" <=> every_check_passes

\* A report whose only failing check is the bias check.
C7_Witness ==
    /\ Evaluated
    /\ last.ret.overall_status = "NON_COMPLIANT"
    /\ last.ret.checks[2].status = "FAIL"
    /\ \A i \in DOMAIN last.ret.checks :
          i # 2 => last.ret.checks[i].status = "PASS"

\* C8: the accuracy check is PASS exactly when the accuracy metric, taken
\* as 0 when missing, is at least rules.minimum_accuracy: equality passes.
C8_AccuracyCheck ==
    (Evaluated /\ "minimum_accuracy" \in DOMAIN rules) =>
       LET performance_metrics == last.args.performance_metrics
           accuracy == IF AccuracyKey \in DOMAIN performance_metrics
                       THEN performance_metrics[AccuracyKey] ELSE 0
           check == last.ret.checks[1]
       IN  /\ check.check_name = "minimum_accuracy"
           /\ check.status \in {"PASS", "FAIL"}
           /\ check.status = "PASS" <=> accuracy >= rules.minimum_accuracy

\* The accuracy equals the threshold, and the check has passed.
C8_Witness ==
    /\ Evaluated
    /\ "minimum_accuracy" \in DOMAIN rules
    /\ AccuracyKey \in DOMAIN last.args.performance_metrics
    /\ last.args.performance_metrics[AccuracyKey] = rules.minimum_accuracy
    /\ last.ret.checks[1].status = "PASS"

\* C9: after the accuracy and the bias check, the report holds one check
\* per entry of rules.required_tests, in the order of that list, so
\* 2 + len(required_tests) checks; each is PASS exactly when test_results
\* holds a true value under the test's name; a required test with no result
\* is FAIL and makes the overall status NON_COMPLIANT.
C9_RequiredTests ==
    Evaluated =>
       LET required_tests == IF "required_tests" \in DOMAIN rules
                             THEN rules.required_tests ELSE << >>
           test_results == last.args.test_results
           report == last.ret
       IN  /\ Len(report.checks) = 2 + Len(required_tests)
           /\ report.checks[1].check_name = "minimum_accuracy"
           /\ report.checks[2].check_name = "bias_assessment"
           /\ \A i \in 1..Len(required_tests) :
                 LET name == required_tests[i]
                     check == report.checks[2 + i]
                 IN  /\ check.check_name = "required_test_" \o name
                     /\ check.status \in {"PASS", "FAIL"}
                     /\ check.status = "PASS" <=>
                           (name \in DOMAIN test_results /\ test_results[name])
                     /\ name \notin DOMAIN test_results =>
                           /\ check.status = "FAIL"
                           /\ report.overall_status = "NON_COMPLIANT"

\* One required test has no result, and it is the only check that fails.
C9_Witness ==
    /\ Evaluated
    /\ Len(last.ret.checks) = 5
    /\ "integration_tests" \notin DOMAIN last.args.test_results
    /\ last.ret.checks[4].status = "FAIL"
    /\ \A i \in {1, 2, 3, 5} : last.ret.checks[i].status = "PASS"
    /\ last.ret.overall_status = "NON_COMPLIANT"

\* C10: the bias check is PASS exactly when max_bias_ratio, taken as 0 when
\* bias_metrics has no such key, is at most rules.maximum_bias_ratio:
\* equality passes, and a missing ratio passes for every non-negative
\* maximum_bias_ratio.
C10_BiasCheck ==
    (Evaluated /\ "maximum_bias_ratio" \in DOMAIN rules) =>
       LET bias_metrics == last.args.bias_metrics
           ratio == IF BiasKey \in DOMAIN bias_metrics
                    THEN bias_metrics[BiasKey] ELSE 0
           check == last.ret.checks[2]
       IN  /\ check.check_name = "bias_assessment"
           /\ check.status \in {"PASS", "FAIL"}
           /\ check.status = "PASS" <=> ratio <= rules.maximum_bias_ratio
           /\ (BiasKey \notin DOMAIN bias_metrics /\ rules.maximum_bias_ratio >= 0)
                 => check.status = "PASS"

\* No ratio was given, the maximum is 0, and the check has passed.
C10_Witness ==
    /\ Evaluated
    /\ "maximum_bias_ratio" \in DOMAIN rules
    /\ rules.maximum_bias_ratio = 0
    /\ BiasKey \notin DOMAIN last.args.bias_metrics
    /\ last.ret.checks[2].status = "PASS"

(***************************************************************************)
(* The query on a ledger of any content.                                   *)
(***************************************************************************)
Occurrences(seq, e) == Cardinality({i \in DOMAIN seq : seq[i] = e})

WellFormed(led) == \A i \in DOMAIN led : IsJson(led[i])

Matches(e, model_name, model_version) ==
    /\ "model_name" \in DOMAIN e
    /\ e.model_name = model_name
    /\ \/ model_version = None
       \/ ("model_version" \in DOMAIN e /\ e.model_version = model_version)

\* C11: on a ledger every line of which is an entry, get_audit_trail
\* completes, and its result holds each entry that matches the name (and
\* the version, when one is given) as many times as the ledger holds it
\* and no other entry, in ascending order of timestamp, an entry without
\* timestamp ordered as the empty string is, before every timestamp.
C11_AuditTrailQuery ==
    (last.op = "get_audit_trail" /\ WellFormed(ledger)) =>
       LET model_name == last.args.model_name
           model_version == last.args.model_version
           result == last.ret
           Key(e) == IF "timestamp" \in DOMAIN e THEN e.timestamp ELSE -1
       IN  /\ ~last.raised
           /\ \A e \in LedgerEntries :
                 Occurrences(result, e) =
                    IF Matches(e, model_name, model_version)
                    THEN Occurrences(ledger, e) ELSE 0
           /\ \A i, j \in DOMAIN result :
                 i < j => Key(result[i]) <= Key(result[j])
           /\ \A i \in DOMAIN result :
                 ("timestamp" \notin DOMAIN result[i]) =>
                    \A j \in 1..(i - 1) : "timestamp" \notin DOMAIN result[j]

\* The ledger holds a matching entry with a timestamp, behind it a matching
\* entry without one, and an entry of another model; the query has put the
\* entry without timestamp first.
C11_Witness ==
    /\ last.op = "get_audit_trail"
    /\ last.args.model_version = "c"
    /\ Len(ledger) = 3
    /\ WellFormed(ledger)
    /\ "timestamp" \in DOMAIN ledger[1]
    /\ "timestamp" \notin DOMAIN ledger[2]
    /\ ledger[3].model_name # last.args.model_name
    /\ last.ret = <<ledger[2], ledger[1]>>

\* C19: when a line of the ledger is not JSON, get_audit_trail still
\* returns: its result holds every well-formed entry of the ledger that
\* matches the query.
C19_MalformedLineTolerated ==
    last.op = "get_audit_trail" =>
       /\ ~last.raised
       /\ \A i \in DOMAIN ledger :
             (/\ IsJson(ledger[i])
              /\ Matches(ledger[i], last.args.model_name,
                         last.args.model_version)) =>
                \E j \in DOMAIN last.ret : last.ret[j] = ledger[i]

(***************************************************************************)
(* The registry.                                                           *)
(***************************************************************************)
\* C12: no metadata document holds approval_status REJECTED, whatever
\* register_model and approve_model calls and whatever runs of the approval
\* script came before.
C12_NoRejectedRecord ==
    \A path \in DOMAIN files :
       IsJson(files[path]) => files[path].approval_status # "REJECTED"

\* C13: register_model never raises; it returns False when the ledger
\* append or the metadata write has failed; when it returns True the
\* document of the key holds the metadata passed and the last ledger entry
\* is the MODEL_REGISTRATION entry of that metadata.
C13_RegisterNeverRaises ==
    last.op = "register_model" =>
       LET metadata == last.args.metadata
           path == MetadataPath(metadata.model_name, metadata.version)
       IN  /\ ~last.raised
           /\ last.ret \in BOOLEAN
           /\ last.io # "ok" => last.ret = FALSE
           /\ last.ret = TRUE =>
                 /\ Readable(files, path)
                 /\ files[path] = metadata
                 /\ ledger # << >>
                 /\ ledger[Len(ledger)].event_type = "MODEL_REGISTRATION"
                 /\ ledger[Len(ledger)].details = [metadata |-> metadata]

\* register_model has returned False because the metadata write failed
\* behind a ledger append that succeeded.
C13_Witness ==
    /\ last.op = "register_model"
    /\ last.io = "write_error"
    /\ last.ret = FALSE
    /\ ~last.raised
    /\ Len(ledger) = 2

\* C14: a run of the approval script gets the stored record of a
\* registered key from the registry and goes on to its checks; for a key
\* that is not registered it gets the not-found outcome and exits with
\* failure; no run ends in another error.
C14_GetModelMetadata ==
    last.op = "approve_model.py" =>
       LET path == MetadataPath(last.args.model_name, last.args.version)
       IN  IF Readable(files, path)
           THEN ~last.raised
           ELSE last.ret = "not-found"

\* C17: with a storage layer that works, approve_model on any existing
\* record returns True, whatever the record's compliance_status,
\* performance_metrics and bias_assessment; the record it leaves is
\* APPROVED and differs from the record it found in approval_status,
\* approved_by and approved_at only.
C17_ApproveUnconditional ==
    [][\A k \in KeysRegistry, a \in ApprovalInputs :
         LET path == MetadataPath(k[1], k[2])
             approval == {"approval_status", "approved_by", "approved_at"}
         IN  (/\ Readable(files, path)
              /\ approve_model(k[1], k[2], a[1], a[2], "ok")) =>
                /\ last'.ret = TRUE
                /\ files'[path].approval_status = "APPROVED"
                /\ DOMAIN files'[path] = DOMAIN files[path] \cup approval
                /\ \A field \in DOMAIN files[path] \ approval :
                      files'[path][field] = files[path][field]]_vars

\* A record that is NON_COMPLIANT, with a HIGH bias assessment and an
\* accuracy below the minimum, has just been approved.
C17_Witness ==
    /\ last.op = "approve_model"
    /\ last.ret = TRUE
    /\ LET record == files[MetadataPath(last.args.model_name,
                                        last.args.model_version)]
       IN  /\ record.approval_status = "APPROVED"
           /\ record.compliance_status = "NON_COMPLIANT"
           /\ record.bias_assessment = [bias_assessment |-> "HIGH"]
           /\ record.performance_metrics[AccuracyKey] < rules.minimum_accuracy

(***************************************************************************)
(* The model card generator.                                               *)
(***************************************************************************)
\* C15: generate_model_card for a key with no metadata document raises and
\* leaves no card at the card location, and every generate_model_card call
\* that raises leaves the card files as they were: none created, none
\* modified.
C15_NoCardOnFailure ==
    [][\A k \in KeysCard, io \in CardIO :
         generate_model_card(k[1], k[2], io) =>
            /\ MetadataPath(k[1], k[2]) \notin DOMAIN files =>
                  /\ last'.raised
                  /\ CardPath(k[1], k[2]) \notin DOMAIN cards'
            /\ last'.raised => cards' = cards]_vars

\* C16: a generate_model_card call, whether it returns or raises, leaves
\* the ledger, every metadata document and the compliance rules as they
\* were, and leaves every card other than the card of its key as it was.
C16_CardReadOnly ==
    [][\A k \in KeysCard, io \in CardIO :
         generate_model_card(k[1], k[2], io) =>
            /\ ledger' = ledger
            /\ files' = files
            /\ rules' = rules
            /\ rulesFile' = rulesFile
            /\ \A path \in (DOMAIN cards \cup DOMAIN cards')
                              \ {CardPath(k[1], k[2])} :
                  /\ path \in DOMAIN cards
                  /\ path \in DOMAIN cards'
                  /\ cards'[path] = cards[path]]_vars

\* A card has just been written for one key while the other key has a
\* card and both keys are registered.
C16_Witness ==
    /\ last.op = "generate_model_card"
    /\ ~last.raised
    /\ Len(ledger) = 2
    /\ \A k \in KeysCard :
          /\ Readable(files, MetadataPath(k[1], k[2]))
          /\ Readable(cards, CardPath(k[1], k[2]))

(***************************************************************************)
(* Concurrent appends, and the identity of a record.                       *)
(***************************************************************************)
\* C18: appends of several processes are serialized: once no append is
\* under way every line of the ledger is the complete record of one
\* append, no line holds parts of two records, and no get_audit_trail call
\* meets a line that is not a complete record.
C18_SerializedAppends ==
    /\ inflight = EmptyDict => WellFormed(ledger)
    /\ \A i \in DOMAIN ledger :
          ~IsJson(ledger[i]) =>
             \A j \in DOMAIN ledger[i].pieces :
                ledger[i].pieces[j].of = ledger[i].pieces[1].of
    /\ last.op = "get_audit_trail" => ~last.raised

\* C20: a register_model or approve_model call on one key leaves the
\* record of every other key as it was: not created, not replaced, not
\* modified.
C20_RecordIdentity ==
    [][\A k1, k2 \in Keys :
         LET path == MetadataPath(k2[1], k2[2])
             unchanged == /\ path \in DOMAIN files' <=> path \in DOMAIN files
                          /\ path \in DOMAIN files => files'[path] = files[path]
         IN  k1 # k2 =>
                /\ \A acc \in {70, 90} :
                      register_model(ModelMetadata(k1[1], k1[2], "dev", acc,
                                                   "PENDING"), "ok")
                         => unchanged
                /\ \A a \in ApprovalInputs :
                      approve_model(k1[1], k1[2], a[1], a[2], "ok")
                         => unchanged]_vars

(***************************************************************************)
(* The approval workflow of src/governance/approve_model.py.               *)
(***************************************************************************)
ScriptMinAccuracy == 75

\* C21: a run of the approval script on a registered record whose accuracy
\* is below the script's minimum fails the performance check: the run does
\* not call approve_model, leaves the record as it was, writes a rejection
\* report and exits with a failure status, which is the outcome REJECTED.
C21_ApprovalGate ==
    last.op = "approve_model.py" =>
       LET path == MetadataPath(last.args.model_name, last.args.version)
       IN  (/\ Readable(files, path)
            /\ files[path].performance_metrics[AccuracyKey] < ScriptMinAccuracy)
              => last.ret = "REJECTED"

(***************************************************************************)
(* The compliance rules.                                                   *)
(***************************************************************************)
\* C22: when ModelGovernance is constructed and the rules document is
\* absent, the rules in memory are the defaults (minimum_accuracy 0.85,
\* maximum_bias_ratio 0.1, required_tests unit_tests, integration_tests,
\* bias_tests) and the document is created with the same content; when the
\* document is there, the rules in memory are its content and the document
\* is left as it was.
C22_RulesAtConstruction ==
    [][__init__ =>
         /\ rulesFile = << >> =>
               /\ rules'.minimum_accuracy = 85
               /\ rules'.maximum_bias_ratio = 10
               /\ rules'.required_tests =
                     <<"unit_tests", "integration_tests", "bias_tests">>
               /\ rulesFile' = <<rules'>>
         /\ (rulesFile # << >> /\ IsJson(rulesFile[1])) =>
               /\ rules' = rulesFile[1]
               /\ rulesFile' = rulesFile]_vars

\* The object has been constructed from nothing: the defaults are in
\* memory and in the document, and an evaluation has used them.
C22_Witness ==
    /\ Evaluated
    /\ rulesFile = <<rules>>
    /\ rules.minimum_accuracy = 85
    /\ Len(rules.required_tests) = 3
    /\ last.ret.checks[1].required = 85

\* C23: when the rules in memory lack minimum_accuracy, the threshold of
\* the accuracy check is the default 0.85, and when they lack
\* maximum_bias_ratio the threshold of the bias check is the default 0.1:
\* the thresholds used when the document is absent.
C23_DefaultsPerRule ==
    Evaluated =>
       LET min_accuracy == IF "minimum_accuracy" \in DOMAIN rules
                           THEN rules.minimum_accuracy ELSE 85
           max_bias == IF "maximum_bias_ratio" \in DOMAIN rules
                       THEN rules.maximum_bias_ratio ELSE 10
           performance_metrics == last.args.performance_metrics
           bias_metrics == last.args.bias_metrics
           accuracy == IF AccuracyKey \in DOMAIN performance_metrics
                       THEN performance_metrics[AccuracyKey] ELSE 0
           ratio == IF BiasKey \in DOMAIN bias_metrics
                    THEN bias_metrics[BiasKey] ELSE 0
       IN  /\ last.ret.checks[1].required = min_accuracy
           /\ last.ret.checks[1].status = "PASS" <=> accuracy >= min_accuracy
           /\ last.ret.checks[2].required = max_bias
           /\ last.ret.checks[2].status = "PASS" <=> ratio <= max_bias

(***************************************************************************)
(* The life cycle of a record.                                             *)
(***************************************************************************)
\* C27: when approve_model has written the approved record and the ledger
\* append behind it fails, the call returns False without raising, the
\* record stays APPROVED with approved_by the approver, and the ledger is
\* as it was, without an entry for the call.
C27_ApproveNotAtomic ==
    [][\A k \in KeysIO, a \in ApprovalInputs :
         LET path == MetadataPath(k[1], k[2])
         IN  (/\ Readable(files, path)
              /\ approve_model(k[1], k[2], a[1], a[2], "append_error")) =>
                /\ last'.ret = FALSE
                /\ ~last'.raised
                /\ Readable(files', path)
                /\ files'[path].approval_status = "APPROVED"
                /\ files'[path].approved_by = a[1]
                /\ ledger' = ledger]_vars

\* approve_model has returned False on a record that was never approved
\* before, and the record is APPROVED.
C27_Witness ==
    /\ last.op = "approve_model"
    /\ last.io = "append_error"
    /\ last.ret = FALSE
    /\ CountEntries(ledger, "MODEL_APPROVAL", last.args.model_name,
                    last.args.model_version) = 0
    /\ LET path == MetadataPath(last.args.model_name, last.args.model_version)
       IN  /\ Readable(files, path)
           /\ files[path].approval_status = "APPROVED"
           /\ files[path].approved_by = last.args.approver

\* C28: register_model with PENDING metadata on a key whose record is
\* APPROVED returns True and replaces the record: approval_status is
\* PENDING again, approved_by and approved_at are unset, and the ledger
\* keeps every entry it had, the MODEL_APPROVAL entry included.
C28_ApprovedNotTerminal ==
    [][\A k \in KeysLifecycle, acc \in {70, 90} :
         LET path == MetadataPath(k[1], k[2])
             metadata == ModelMetadata(k[1], k[2], "dev", acc, "PENDING")
         IN  (/\ Readable(files, path)
              /\ files[path].approval_status = "APPROVED"
              /\ register_model(metadata, "ok")) =>
                /\ last'.ret = TRUE
                /\ files'[path].approval_status = "PENDING"
                /\ files'[path].approved_by = None
                /\ files'[path].approved_at = NoTime
                /\ IsPrefix(ledger, ledger')
                /\ CountEntries(ledger', "MODEL_APPROVAL", k[1], k[2])
                      = CountEntries(ledger, "MODEL_APPROVAL", k[1], k[2])]_vars

\* A key has been registered, approved and registered again: its record
\* is PENDING and the ledger holds the approval between the registrations.
C28_Witness ==
    /\ last.op = "register_model"
    /\ last.ret = TRUE
    /\ Len(ledger) = 3
    /\ EventTypes(ledger) =
          <<"MODEL_REGISTRATION", "MODEL_APPROVAL", "MODEL_REGISTRATION">>
    /\ \A i \in 1..3 :
          /\ ledger[i].model_name = last.args.metadata.model_name
          /\ ledger[i].model_version = last.args.metadata.version
    /\ LET path == MetadataPath(last.args.metadata.model_name,
                                last.args.metadata.version)
       IN  /\ files[path].approval_status = "PENDING"
           /\ files[path].approved_by = None

\* C29: with a storage layer that works and registrations that are all
\* PENDING, every record that is APPROVED has a MODEL_APPROVAL entry in the
\* ledger for its own model_name and version, whose user is the record's
\* approved_by, with no MODEL_REGISTRATION entry of that key behind it.
C29_ApprovedHasEntry ==
    \A path \in DOMAIN files :
       (IsJson(files[path]) /\ files[path].approval_status = "APPROVED") =>
          \E i \in DOMAIN ledger :
             /\ ledger[i].event_type = "MODEL_APPROVAL"
             /\ ledger[i].model_name = files[path].model_name
             /\ ledger[i].model_version = files[path].version
             /\ ledger[i].user = files[path].approved_by
             /\ \A j \in (i + 1)..Len(ledger) :
                   ~(/\ ledger[j].event_type = "MODEL_REGISTRATION"
                     /\ ledger[j].model_name = files[path].model_name
                     /\ ledger[j].model_version = files[path].version)

\* C30: each approve_model call adds one MODEL_APPROVAL entry for its key
\* when it returns True and none when it returns False; on a record that
\* is APPROVED already it returns True, the record stays APPROVED, and its
\* approved_by and approved_at are those of the new call.
C30_ReApproval ==
    [][\A k \in KeysLifecycle, a \in ApprovalInputs :
         LET path == MetadataPath(k[1], k[2])
             before == CountEntries(ledger, "MODEL_APPROVAL", k[1], k[2])
             after == CountEntries(ledger', "MODEL_APPROVAL", k[1], k[2])
         IN  approve_model(k[1], k[2], a[1], a[2], "ok") =>
                /\ after = before + (IF last'.ret THEN 1 ELSE 0)
                /\ (/\ Readable(files, path)
                    /\ files[path].approval_status = "APPROVED") =>
                      /\ last'.ret = TRUE
                      /\ files'[path].approval_status = "APPROVED"
                      /\ files'[path].approved_by = a[1]
                      /\ files'[path].approved_at = clock
                      /\ after = before + 1]_vars

\* A record has been approved twice, by two approvers at two times: the
\* ledger holds both approvals and the record names the second.
C30_Witness ==
    /\ last.op = "approve_model"
    /\ last.ret = TRUE
    /\ Len(ledger) = 3
    /\ EventTypes(ledger) =
          <<"MODEL_REGISTRATION", "MODEL_APPROVAL", "MODEL_APPROVAL">>
    /\ \A i \in 1..3 :
          /\ ledger[i].model_name = last.args.model_name
          /\ ledger[i].model_version = last.args.model_version
    /\ ledger[2].user # ledger[3].user
    /\ ledger[2].timestamp < ledger[3].timestamp
    /\ LET path == MetadataPath(last.args.model_name, last.args.model_version)
       IN  /\ files[path].approval_status = "APPROVED"
           /\ files[path].approved_by = ledger[3].user
           /\ files[path].approved_at = ledger[3].timestamp


(***************************************************************************)
(* The bias assessment.  The tallies of a group are taken here from the    *)
(* classes of rows one by one.                                             *)
(***************************************************************************)
BiasAssessed == last.op = "assess_bias"

Rows(test_data, attr, value) ==
    {i \in DOMAIN test_data :
        test_data[i][attr] = value /\ test_data[i].count > 0}

RECURSIVE SumRows(_, _, _)
SumRows(test_data, rows, field) ==
    IF rows = {} THEN 0
    ELSE LET i == CHOOSE j \in rows : TRUE
         IN  test_data[i][field] + SumRows(test_data, rows \ {i}, field)

IsFraction(x, num, den) == x.ulp = 0 /\ x.den > 0 /\ x.num * den = num * x.den

AssessedAttributes ==
    {last.args.protected_attributes[i] :
        i \in DOMAIN last.args.protected_attributes}
       \cap {"ph_range", "hardness_range"}

\* C24: for each assessed protected attribute the report has one entry of
\* group metrics per label that at least one row carries, with the number
\* of these rows as count, the matching predictions by the count as
\* accuracy and the predictions of 1 by the count as positive prediction
\* rate; bias_ratio is the float difference of the highest and the lowest
\* group accuracy, 0.0 with fewer than two such groups, and never negative.
C24_BiasRatio ==
    BiasAssessed =>
       LET test_data == last.args.test_data
       IN  /\ DOMAIN last.ret.bias_metrics = AssessedAttributes
           /\ \A attr \in AssessedAttributes :
                 LET m == last.ret.bias_metrics[attr]
                     groups == {v \in {"lo", "hi"} :
                                   Rows(test_data, attr, v) # {}}
                     acc(v) == m.group_metrics[v].accuracy
                     n(v, field) ==
                         SumRows(test_data, Rows(test_data, attr, v), field)
                 IN  /\ DOMAIN m.group_metrics = groups
                     /\ \A v \in groups :
                           /\ m.group_metrics[v].count = n(v, "count")
                           /\ IsFraction(acc(v), n(v, "correct"),
                                         n(v, "count"))
                           /\ IsFraction(
                                 m.group_metrics[v].positive_prediction_rate,
                                 n(v, "positive"), n(v, "count"))
                     /\ IF Cardinality(groups) < 2
                        THEN m.bias_ratio = Float(0, 1)
                        ELSE \E hi \in groups, lo \in groups :
                                /\ \A v \in groups :
                                      /\ ~FloatLess(acc(hi), acc(v))
                                      /\ ~FloatLess(acc(v), acc(lo))
                                /\ m.bias_ratio.den > 0
                                /\ m.bias_ratio.num * acc(hi).den * acc(lo).den
                                      = (acc(hi).num * acc(lo).den
                                           - acc(lo).num * acc(hi).den)
                                        * m.bias_ratio.den
                                /\ m.bias_ratio.ulp \in {-1, 0, 1}
                     /\ ~FloatLess(m.bias_ratio, Float(0, 1))

\* Both columns are assessed: all rows carry one label of ph_range, and the
\* two groups of hardness_range differ in accuracy.
C24_Witness ==
    /\ BiasAssessed
    /\ AssessedAttributes = {"ph_range", "hardness_range"}
    /\ DOMAIN last.ret.bias_metrics["ph_range"].group_metrics = {"lo"}
    /\ last.ret.bias_metrics["ph_range"].bias_ratio = Float(0, 1)
    /\ DOMAIN last.ret.bias_metrics["hardness_range"].group_metrics
          = {"lo", "hi"}
    /\ FloatLess(Float(0, 1),
                 last.ret.bias_metrics["hardness_range"].bias_ratio)

\* C25: max_bias_ratio is the greatest of the bias ratios of the assessed
\* attributes, 0.0 when none is assessed; the verdict is LOW exactly when
\* it is below 0.05, MODERATE exactly when it is at least 0.05 and below
\* 0.1, and HIGH exactly when it is at least 0.1.
C25_Verdict ==
    BiasAssessed =>
       LET ratios == {last.ret.bias_metrics[attr].bias_ratio :
                         attr \in DOMAIN last.ret.bias_metrics}
           m == last.ret.max_bias_ratio
           verdict == last.ret.bias_assessment
       IN  /\ IF ratios = {} THEN m = Float(0, 1)
              ELSE m \in ratios /\ \A r \in ratios : ~FloatLess(m, r)
           /\ verdict = "LOW" <=> FloatLess(m, Float(5, 100))
           /\ verdict = "MODERATE" <=>
                 ~FloatLess(m, Float(5, 100)) /\ FloatLess(m, Float(10, 100))
           /\ verdict = "HIGH" <=> ~FloatLess(m, Float(10, 100))

\* Two attributes with different ratios, the greater of them exactly 0.1:
\* the accuracies of its groups are 0.1 and 0.0.
C25_Witness ==
    /\ BiasAssessed
    /\ AssessedAttributes = {"ph_range", "hardness_range"}
    /\ FloatLess(Float(0, 1),
                 last.ret.bias_metrics["hardness_range"].bias_ratio)
    /\ FloatLess(last.ret.bias_metrics["hardness_range"].bias_ratio,
                 last.ret.bias_metrics["ph_range"].bias_ratio)
    /\ last.ret.max_bias_ratio = last.ret.bias_metrics["ph_range"].bias_ratio
    /\ IsFraction(last.ret.max_bias_ratio, 10, 100)
    /\ last.ret.bias_metrics["ph_range"].group_metrics["hi"].accuracy.num = 0
    /\ last.ret.bias_assessment = "HIGH"

\* C26: the recommendations of a bias report are one for each assessed
\* attribute whose own bias ratio is above 0.05 and none for any other,
\* whatever the rules in force and the verdict; a LOW verdict comes with no
\* recommendation.
C26_Recommendations ==
    BiasAssessed =>
       LET recs == last.ret.recommendations
           metrics == last.ret.bias_metrics
       IN  /\ \A attr \in DOMAIN metrics :
                 Cardinality({i \in DOMAIN recs : recs[i].attr = attr})
                    = IF FloatLess(Float(5, 100), metrics[attr].bias_ratio)
                      THEN 1 ELSE 0
           /\ \A i \in DOMAIN recs :
                 /\ recs[i].attr \in DOMAIN metrics
                 /\ recs[i].ratio = metrics[recs[i].attr].bias_ratio
           /\ last.ret.bias_assessment = "LOW" => recs = << >>

\* One attribute at exactly 0.05, with group accuracies 0.05 and 0.0, under
\* rules that allow no bias at all: the verdict is MODERATE and there is no
\* recommendation.
C26_Witness ==
    /\ BiasAssessed
    /\ AssessedAttributes = {"ph_range"}
    /\ IsFraction(last.ret.bias_metrics["ph_range"].bias_ratio, 5, 100)
    /\ last.ret.bias_metrics["ph_range"].group_metrics["hi"].accuracy.num = 0
    /\ last.ret.bias_assessment = "MODERATE"
    /\ last.ret.recommendations = << >>
    /\ Get(rules, "maximum_bias_ratio", FallbackMaximumBiasRatio) = 0

====
